---- MODULE Spec2Model ----
(***************************************************************************)
(* A model of src/without_mcp.py: the eight-node development workflow      *)
(* (create_workflow and its stage handlers), the requirements gate         *)
(* (manager_agent / chat_with_manager), the artifact scan of the           *)
(* '===FILE:' format, the GitHub operations and the two test executors.    *)
(*                                                                         *)
(* Text is modelled as a sequence of tokens.  The character '=' is a token *)
(* of its own, so that the markers '===FILE:', '===' and '===END FILE==='  *)
(* overlap in the model exactly as they do in the Python strings.          *)
(***************************************************************************)
EXTENDS Integers, Sequences, FiniteSets, TLC

VARIABLES
    state,      \* the DevelopmentState dict the workflow threads through its nodes
    pc,         \* the node about to run, or "END", "raised", "returned", "idle"
    pre,        \* the state as it was when the last handler was called
    last,       \* what the last handler call did (node, collaborator outcomes, requests)
    visited,    \* the nodes whose handler has been called, in order
    entry,      \* the node at which this execution was entered
    input,      \* the state this execution was entered with
    env,        \* the process environment: GITHUB_TOKEN and VERCEL_TOKEN set or not
    net,        \* run totals of the traffic to the source-control collaborator
    result,     \* what run_development returned
    gate,       \* AgenticDevSystem: conversation_history and requirements
    glast,      \* what the last chat_with_manager call returned
    ptext,      \* artifact scan: the generator text
    psrc,       \* artifact scan: the mapping the text was serialized from, if any
    pout,       \* artifact scan: the outcome of the scan
    tin,        \* test aggregation: what the test runner produced
    tout,       \* test aggregation: the summary returned
    ein,        \* end-to-end tests: what the subprocesses produced
    eout,       \* end-to-end tests: the summary returned
    server,     \* end-to-end tests: the dev-server process ("none": never started)
    clock,      \* datetime.now(), in whole seconds
    runs,       \* the calls of run_development: thread_id, position, state, result
    checkpoints \* the MemorySaver of workflow_app: thread_id -> last checkpoint

vars == <<state, pc, pre, last, visited, entry, input, env, net, result,
          gate, glast, ptext, psrc, pout, tin, tout, ein, eout, server,
          clock, runs, checkpoints>>

wfvars   == <<state, pc, pre, last, visited, entry, input, env, net, result>>
gatevars == <<gate, glast>>
scanvars == <<ptext, psrc, pout>>
testvars == <<tin, tout, ein, eout, server>>
runvars  == <<clock, runs, checkpoints>>

(***************************************************************************)
(* Bounds of the model.                                                    *)
(***************************************************************************)
MaxChunks == 5      \* generator texts are built from at most this many chunks
MaxEntries == 2     \* entries of a mapping that is serialized and scanned back
MaxTurns == 3       \* submissions to the requirements gate
MaxOut == 2         \* glyph tokens in each output stream of the test runner
MaxCount == 2       \* largest count a structured test report carries
MaxPlanLen == 3     \* tokens of a planner reply
MaxTests == 2       \* tests in one spec of an end-to-end report
MaxRuns == 2        \* calls of run_development on the one workflow_app
MaxClock == 1       \* seconds that pass while the runs are started
MaxFiles == 12      \* files in one generated text of a large milestone

(***************************************************************************)
(* Python values.  None is the empty sequence and a present value x is     *)
(* <<x>>, so that an Optional field always holds a sequence.               *)
(***************************************************************************)
None == <<>>

Some(x) == <<x>>

IsNone(o) == o = <<>>

\* mutant: the slice keeps everything
Min_Uncapped(a, b) == a

Min(a, b) == IF a <= b THEN a ELSE b

(***************************************************************************)
(* str operations, on token sequences.                                     *)
(***************************************************************************)
\* s[i:] starts with pat (1-based i)
MatchAt(s, pat, i) ==
    /\ i >= 1
    /\ i + Len(pat) - 1 <= Len(s)
    /\ \A j \in 1..Len(pat) : s[i + j - 1] = pat[j]

\* str.find: the least index >= from at which pat occurs, 0 when there is none
Find(s, pat, from) ==
    LET hits == {i \in from..Len(s) : MatchAt(s, pat, i)}
    IN  IF hits = {} THEN 0 ELSE CHOOSE i \in hits : \A k \in hits : i <= k

\* pat in s
Contains(s, pat) == Find(s, pat, 1) # 0

\* s.split(pat)
RECURSIVE Split(_, _)
Split(s, pat) ==
    LET i == Find(s, pat, 1)
    IN  IF i = 0 THEN <<s>>
        ELSE <<SubSeq(s, 1, i - 1)>> \o Split(SubSeq(s, i + Len(pat), Len(s)), pat)

\* s.split(pat, 1), for s that contains pat
SplitOnce(s, pat) ==
    LET i == Find(s, pat, 1)
    IN  <<SubSeq(s, 1, i - 1), SubSeq(s, i + Len(pat), Len(s))>>

\* s.replace(pat, '')
RECURSIVE Remove(_, _)
Remove(s, pat) ==
    LET i == Find(s, pat, 1)
    IN  IF i = 0 THEN s
        ELSE SubSeq(s, 1, i - 1) \o Remove(SubSeq(s, i + Len(pat), Len(s)), pat)

WS == " "

\* s.strip()
RECURSIVE LStrip(_)
LStrip(s) == IF s # <<>> /\ Head(s) = WS THEN LStrip(Tail(s)) ELSE s

RECURSIVE RStrip(_)
RStrip(s) ==
    IF s # <<>> /\ s[Len(s)] = WS THEN RStrip(SubSeq(s, 1, Len(s) - 1)) ELSE s

Strip(s) == RStrip(LStrip(s))

\* s.count(tok), for a one-token pattern
RECURSIVE Count(_, _)
Count(s, tok) ==
    IF s = <<>> THEN 0
    ELSE (IF Head(s) = tok THEN 1 ELSE 0) + Count(Tail(s), tok)

RECURSIVE Concat(_)
Concat(ss) == IF ss = <<>> THEN <<>> ELSE Head(ss) \o Concat(Tail(ss))

(***************************************************************************)
(* dict: a sequence of [k, v] entries with distinct keys, in insertion     *)
(* order (list(d.items())[:10] depends on the order).                      *)
(***************************************************************************)
EmptyDict == <<>>

Keys(d) == {d[i].k : i \in 1..Len(d)}

Lookup(d, key) == (CHOOSE i \in 1..Len(d) : d[i].k = key)

Get(d, key) == d[Lookup(d, key)].v

\* d[key] = val: a present key keeps its place, a new key goes last
DictSet(d, key, val) ==
    IF key \in Keys(d)
    THEN [d EXCEPT ![Lookup(d, key)] = [k |-> key, v |-> val]]
    ELSE Append(d, [k |-> key, v |-> val])

\* mutant: on a shared key the left mapping keeps its value
RECURSIVE Merge_KeepLeft(_, _)
Merge_KeepLeft(a, b) ==
    IF b = <<>> THEN a
    ELSE Merge_KeepLeft(IF Head(b).k \in Keys(a) THEN a
                        ELSE DictSet(a, Head(b).k, Head(b).v),
                        Tail(b))

\* {**a, **b}
RECURSIVE Merge(_, _)
Merge(a, b) ==
    IF b = <<>> THEN a ELSE Merge(DictSet(a, Head(b).k, Head(b).v), Tail(b))

SameMapping(a, b) ==
    /\ Keys(a) = Keys(b)
    /\ \A key \in Keys(a) : Get(a, key) = Get(b, key)

(***************************************************************************)
(* The artifact format and its scan (developer_node, tester_node).         *)
(***************************************************************************)
SEP == <<"=", "=", "=">>

START == <<"=", "=", "=", "FILE:">>

ENDM == <<"=", "=", "=", "END FILE", "=", "=", "=">>

\* save_file raises when the file name is empty: the path is then the project
\* directory itself and open() fails on it
save_file_raises(filename) == filename = <<>>

\* mutant: the body is taken as it stands, without .strip()
ScanPart_NoStrip(acc, part) ==
    IF acc.raised \/ ~Contains(part, SEP) THEN acc
    ELSE LET hc       == SplitOnce(part, SEP)
             filename == Strip(hc[1])
             body     == Remove(hc[2], ENDM)
         IN  [files  |-> DictSet(acc.files, filename, body),
              raised |-> save_file_raises(filename)]

\* the body of the loop over parts[1:], applied to one part
ScanPart(acc, part) ==
    IF acc.raised \/ ~Contains(part, SEP) THEN acc
    ELSE LET hc       == SplitOnce(part, SEP)
             filename == Strip(hc[1])
             body     == Strip(Remove(hc[2], ENDM))
         IN  [files  |-> DictSet(acc.files, filename, body),
              raised |-> save_file_raises(filename)]

RECURSIVE ScanParts(_, _)
ScanParts(acc, parts) ==
    IF parts = <<>> THEN acc ELSE ScanParts(ScanPart(acc, Head(parts)), Tail(parts))

\* parts = content.split('===FILE:'); for part in parts[1:]: ...
ParseArtifacts(text) ==
    ScanParts([files |-> EmptyDict, raised |-> FALSE], Tail(Split(text, START)))

(***************************************************************************)
(* DevelopmentState and the record run_development starts a run with.      *)
(***************************************************************************)
Nodes == <<"github_init", "planner", "developer", "github_commit_code",
           "tester", "github_commit_tests", "deployer", "github_commit_deploy">>

NodeSet == {Nodes[i] : i \in 1..Len(Nodes)}

GithubNodes == {"github_init", "github_commit_code", "github_commit_tests",
                "github_commit_deploy"}

GeneratingNodes == {"planner", "developer", "tester"}

NodeIndex(n) == CHOOSE i \in 1..Len(Nodes) : Nodes[i] = n

\* mutant: an edge from github_commit_tests back to developer (a retry loop)
NextNode_Loop(n) ==
    IF n = "github_commit_tests" THEN "developer"
    ELSE IF NodeIndex(n) = Len(Nodes) THEN "END" ELSE Nodes[NodeIndex(n) + 1]

\* add_edge: the one successor of each node; the last node leads to END
NextNode(n) == IF NodeIndex(n) = Len(Nodes) THEN "END" ELSE Nodes[NodeIndex(n) + 1]

\* the values current_stage takes, in the order the handlers assign them
Stages == <<"initial", "planning_complete", "code_written", "tests_written",
            "deployment_complete">>

StageRank(s) == CHOOSE i \in 1..Len(Stages) : Stages[i] = s

Requirements == "R"

initial_state ==
    [requirements        |-> Requirements,
     development_plan    |-> None,
     code_files          |-> EmptyDict,
     unit_tests          |-> EmptyDict,
     e2e_tests           |-> EmptyDict,
     deployment_url      |-> None,
     deployment_platform |-> "vercel",
     github_repo         |-> None,
     current_stage       |-> "initial",
     iteration_count     |-> 0,
     errors              |-> <<>>,
     messages            |-> <<>>]

\* a development plan: the parsed JSON object, of which only project_name is read
Plan(name) == [project_name |-> name]

\* project_name.lower().replace(' ', '-')
RepoName(project_name) ==
    CASE project_name = "Todo App" -> "todo-app"
      [] OTHER -> project_name

\* the two shapes github_agent_node gives github_repo
RealRepo(name, owner) ==
    [name |-> name, url |-> "https://github.com/" \o owner \o "/" \o name,
     owner |-> Some(owner), branch |-> Some("main")]

LocalRepo(name) ==
    [name |-> name, url |-> "local-only", owner |-> None, branch |-> None]

IsLocalOnly(st) ==
    ~IsNone(st.github_repo) /\ st.github_repo[1].url = "local-only"

IsRealRepo(st) ==
    ~IsNone(st.github_repo) /\ st.github_repo[1].url # "local-only"

(***************************************************************************)
(* github_operation.  A request is logged as it is sent, with the response *)
(* it got ("error": the client raised).                                    *)
(***************************************************************************)
Request(m, path, content, msg, sha, resp) ==
    [m |-> m, path |-> path, content |-> content, msg |-> msg, sha |-> sha,
     resp |-> resp]

CreateOutcomes == {"201", "422", "error"}

github_create_repo(token, name, out) ==
    IF ~token THEN [success |-> FALSE, http |-> <<>>]
    ELSE [success |-> out = "201",
          http    |-> <<Request("POST", <<>>, <<>>, name, FALSE, out)>>]

\* what a commit_file meets: the answer to the GET and the answer to the PUT.
\* "200sha": the path exists; "200nosha": a 200 whose body has no sha;
\* "200list": a 200 whose body is a list (a directory), on which .get raises
CommitOutcomes ==
    {[get |-> "404",      put |-> "201"],
     [get |-> "404",      put |-> "422"],
     [get |-> "200sha",   put |-> "200"],
     [get |-> "200sha",   put |-> "error"],
     [get |-> "200nosha", put |-> "422"],
     [get |-> "200list",  put |-> "none"],
     [get |-> "error",    put |-> "none"]}

\* mutant: the sha is put in the payload on any 200, with no "if sha"
PayloadHasSha_On200(get) == get \in {"200sha", "200nosha"}

\* payload['sha'] = sha, under "if sha"
PayloadHasSha(get) == get = "200sha"

github_commit_file(token, repo, path, content, msg, out) ==
    IF ~token THEN [success |-> FALSE, http |-> <<>>]
    ELSE IF IsNone(repo.owner) THEN [success |-> FALSE, http |-> <<>>]
    ELSE LET g == Request("GET", path, <<>>, "", FALSE, out.get)
         IN  IF out.get \in {"error", "200list"}
             THEN [success |-> FALSE, http |-> <<g>>]
             ELSE [success |-> out.put \in {"200", "201"},
                   http    |-> <<g, Request("PUT", path, content, msg,
                                            PayloadHasSha(out.get), out.put)>>]

(***************************************************************************)
(* What a handler call yields: the state it returns, whether it raised,    *)
(* and what it asked of its collaborators.                                 *)
(***************************************************************************)
Yield(st, ops, http, gens, deploy) ==
    [st |-> st, raised |-> FALSE, ops |-> ops, http |-> http, gens |-> gens,
     deploy |-> deploy]

\* mutant: the handler swallows its exception and returns the state it was given
Raise_Swallowed(st) ==
    [st |-> st, raised |-> FALSE, ops |-> <<>>, http |-> <<>>, gens |-> <<>>,
     deploy |-> "none"]

Raise(st) ==
    [st |-> st, raised |-> TRUE, ops |-> <<>>, http |-> <<>>, gens |-> <<>>,
     deploy |-> "none"]

\* list(files_to_commit.items())[:10]
CommitCap == 10

\* the milestone batch and its commit message, chosen by current_stage
FilesToCommit(st, project_name) ==
    CASE st.current_stage = "code_written" ->
           [files |-> Merge(st.code_files, st.unit_tests),
            msg   |-> "feat: Add application code with unit tests"]
      [] st.current_stage = "tests_written" ->
           [files |-> st.e2e_tests, msg |-> "test: Add E2E Playwright tests"]
      [] st.current_stage = "deployment_complete" ->
           [files |-> <<[k |-> <<"README.md">>,
                         v |-> <<"#", project_name, "Live:">> \o
                               (IF IsNone(st.deployment_url) THEN <<"None">>
                                ELSE st.deployment_url)]>>,
            msg   |-> "docs: Add deployment URL"]
      [] OTHER -> [files |-> EmptyDict, msg |-> ""]

BatchSize(st) == Min(Len(FilesToCommit(st, "").files), CommitCap)

Op(name, success) == [name |-> name, success |-> success]

\* mutant: the loop stops at the first commit_file that fails
RECURSIVE CommitLoop_AbortOnFailure(_, _, _, _, _, _)
CommitLoop_AbortOnFailure(token, repo, files, msg, outs, i) ==
    IF i > Min(Len(files), CommitCap) THEN <<>>
    ELSE LET r == github_commit_file(token, repo, files[i].k, files[i].v, msg, outs[i])
         IN  r.http \o (IF r.success
                        THEN CommitLoop_AbortOnFailure(token, repo, files, msg, outs, i + 1)
                        ELSE <<>>)

\* the requests of the commit loop, file by file
RECURSIVE CommitLoop(_, _, _, _, _, _)
CommitLoop(token, repo, files, msg, outs, i) ==
    IF i > Min(Len(files), CommitCap) THEN <<>>
    ELSE github_commit_file(token, repo, files[i].k, files[i].v, msg, outs[i]).http
         \o CommitLoop(token, repo, files, msg, outs, i + 1)

\* mutant: the local-only record counts as no repository, so creation is retried
RepoUnset_Retry(st) == IsNone(st.github_repo) \/ st.github_repo[1].url = "local-only"

\* state.get('github_repo') is falsy
RepoUnset(st) == IsNone(st.github_repo)

\* mutant: the local-only check is missing
SyncDisabled_Never(st) == FALSE

\* state['github_repo']['url'] == 'local-only'
SyncDisabled(st) == st.github_repo[1].url = "local-only"

github_agent_node(st, token, create, outs) ==
    IF IsNone(st.development_plan) THEN Raise(st)
    ELSE
    LET plan         == st.development_plan[1]
        project_name == RepoName(IF IsNone(plan.project_name) THEN "react-app"
                                 ELSE plan.project_name[1])
    IN  IF RepoUnset(st)
        THEN LET r == github_create_repo(token, project_name, create)
             IN  Yield([st EXCEPT !.github_repo =
                            Some(IF r.success THEN RealRepo(project_name, "octo")
                                 ELSE LocalRepo(project_name))],
                       <<Op("create_repo", r.success)>>, r.http, <<>>, "none")
        ELSE IF SyncDisabled(st) THEN Yield(st, <<>>, <<>>, <<>>, "none")
        ELSE LET batch == FilesToCommit(st, project_name)
                 n     == Min(Len(batch.files), CommitCap)
             IN  Yield(st,
                       [i \in 1..n |->
                          Op("commit_file",
                             github_commit_file(token, st.github_repo[1],
                                                batch.files[i].k, batch.files[i].v,
                                                batch.msg, outs[i]).success)],
                       CommitLoop(token, st.github_repo[1], batch.files, batch.msg,
                                  outs, 1),
                       <<>>, "none")

(***************************************************************************)
(* The generation collaborator (call_claude): success and the text.        *)
(***************************************************************************)
GenFailure == [success |-> FALSE, content |-> <<"Error">>]

GenSuccess(text) == [success |-> TRUE, content |-> text]

(***************************************************************************)
(* planner_node.  A reply is a sequence of tokens: the braces, "pn" (a     *)
(* "project_name" member), "d" (any other member) and "t" (prose).         *)
(***************************************************************************)
PlanTokens == {"{", "}", "pn", "d", "t"}

RECURSIVE SeqsUpTo(_, _)
SeqsUpTo(S, n) ==
    IF n = 0 THEN {<<>>}
    ELSE LET shorter == SeqsUpTo(S, n - 1)
         IN  shorter \cup {Append(s, x) : s \in {t \in shorter : Len(t) = n - 1}, x \in S}

PlanTexts == SeqsUpTo(PlanTokens, MaxPlanLen)

PlannerGens == {GenFailure} \cup {GenSuccess(t) : t \in PlanTexts}

\* content.rfind(tok) + 1: the 1-based index of the last tok, 0 when there is none
RFind(s, tok) ==
    LET hits == {i \in 1..Len(s) : s[i] = tok}
    IN  IF hits = {} THEN 0 ELSE CHOOSE i \in hits : \A k \in hits : i >= k

\* content[json_start:json_end], json_start = find('{') (-1 when there is none)
PlanSlice(content) ==
    LET json_start == Find(content, <<"{">>, 1)
        json_end   == RFind(content, "}")
    IN  IF json_start = 0
        THEN SubSeq(content, IF content = <<>> THEN 1 ELSE Len(content), json_end)
        ELSE SubSeq(content, json_start, json_end)

\* json.loads succeeds: one object whose members are well formed
JsonLoads(slice) ==
    /\ Len(slice) >= 2
    /\ slice[1] = "{"
    /\ slice[Len(slice)] = "}"
    /\ \A i \in 2..(Len(slice) - 1) : slice[i] \in {"pn", "d"}

\* the object json.loads returns
LoadedPlan(slice) ==
    Plan(IF \E i \in 1..Len(slice) : slice[i] = "pn" THEN Some("Todo App") ELSE None)

planner_stage == "planning_complete"

planner_node(st, gen) ==
    LET slice == PlanSlice(gen.content)
        st1 == IF ~gen.success THEN st
               ELSE IF ~JsonLoads(slice)
               THEN [st EXCEPT !.errors = Append(@, "Failed to parse plan")]
               ELSE IF IsNone(LoadedPlan(slice).project_name)
               THEN [st EXCEPT !.development_plan = Some(LoadedPlan(slice)),
                               !.errors = Append(@, "Failed to parse plan")]
               ELSE [st EXCEPT !.development_plan = Some(LoadedPlan(slice)),
                               !.messages = Append(@, "Plan created")]
    IN  Yield([st1 EXCEPT !.current_stage = planner_stage],
              <<>>, <<>>, <<gen.success>>, "none")

(***************************************************************************)
(* developer_node and tester_node.                                         *)
(***************************************************************************)
File(path, body) == START \o <<WS>> \o path \o SEP \o <<WS>> \o body \o <<WS>> \o ENDM

\* the replies the generation collaborator gives in the workflow: one file,
\* two files, prose only, a start marker with no separator, an empty path
GenTexts ==
    {File(<<"a">>, <<"x">>),
     File(<<"a">>, <<"y">>) \o <<WS>> \o File(<<"b">>, <<"y">>),
     <<"x">>,
     START \o <<WS, "a", WS, "x", WS>> \o ENDM,
     START \o SEP \o <<"x">> \o ENDM}

ArtifactGens == {GenFailure} \cup {GenSuccess(t) : t \in GenTexts}

\* mutant: only a plan without the member raises; a None plan is let through
NoProjectName_MemberOnly(st) ==
    ~IsNone(st.development_plan) /\ IsNone(st.development_plan[1].project_name)

\* plan['project_name'] raises: plan is None, or has no such member
NoProjectName(st) ==
    IsNone(st.development_plan) \/ IsNone(st.development_plan[1].project_name)

developer_stage == "code_written"

developer_node(st, code_gen, test_gen) ==
    IF NoProjectName(st) THEN Raise(st)
    ELSE
    LET code == ParseArtifacts(code_gen.content)
        unit == ParseArtifacts(test_gen.content)
        st1  == IF code_gen.success THEN [st EXCEPT !.code_files = code.files] ELSE st
        st2  == IF test_gen.success THEN [st1 EXCEPT !.unit_tests = unit.files] ELSE st1
    IN  IF (code_gen.success /\ code.raised) \/ (test_gen.success /\ unit.raised)
        THEN Raise(st)
        ELSE Yield([st2 EXCEPT !.current_stage = developer_stage,
                               !.iteration_count = @ + 1],
                   <<>>, <<>>, <<code_gen.success, test_gen.success>>, "none")

tester_stage == "tests_written"

tester_node(st, gen) ==
    IF NoProjectName(st) THEN Raise(st)
    ELSE
    LET e2e == ParseArtifacts(gen.content)
        st1 == IF gen.success THEN [st EXCEPT !.e2e_tests = e2e.files] ELSE st
    IN  IF gen.success /\ e2e.raised THEN Raise(st)
        ELSE Yield([st1 EXCEPT !.current_stage = tester_stage],
                   <<>>, <<>>, <<gen.success>>, "none")

(***************************************************************************)
(* deploy_to_vercel and deployer_node.                                     *)
(***************************************************************************)
\* "200json": a 200 whose body response.json() or data.get raises on
DeployOutcomes == {"200", "200json", "500", "error"}

\* mutant: the request is built without reading github_repo['owner'], so it is
\* sent for a local-only record too
deploy_to_vercel_NoOwnerRead(vercel_token, project_name, github_repo, out) ==
    IF ~vercel_token THEN [success |-> FALSE, error |-> "No Vercel token", url |-> None]
    ELSE IF out = "200"
    THEN [success |-> TRUE, error |-> "", url |-> Some(project_name \o ".vercel.app")]
    ELSE [success |-> FALSE,
          error   |-> CASE out = "error" -> "connect"
                        [] out = "200json" -> "json"
                        [] OTHER -> "Status 500",
          url     |-> None]

deploy_to_vercel(vercel_token, project_name, github_repo, out) ==
    IF ~vercel_token THEN [success |-> FALSE, error |-> "No Vercel token", url |-> None]
    ELSE IF IsNone(github_repo) \/ IsNone(github_repo[1].owner)
    THEN [success |-> FALSE, error |-> "'owner'", url |-> None]
    ELSE IF out = "200"
    THEN [success |-> TRUE, error |-> "", url |-> Some(project_name \o ".vercel.app")]
    ELSE [success |-> FALSE,
          error   |-> CASE out = "error" -> "connect"
                        [] out = "200json" -> "json"
                        [] OTHER -> "Status 500",
          url     |-> None]

deployer_stage == "deployment_complete"

\* mutant: a failed deployment replaces the errors log by its own entry
deployer_node_ResetErrors(st, vercel_token, out) ==
    IF NoProjectName(st) THEN Raise(st)
    ELSE
    LET r   == deploy_to_vercel(vercel_token, st.development_plan[1].project_name[1],
                                st.github_repo, out)
        st1 == IF r.success
               THEN [st EXCEPT !.deployment_url = r.url, !.deployment_platform = "vercel"]
               ELSE [st EXCEPT !.errors = <<"Deployment failed: " \o r.error>>]
    IN  Yield([st1 EXCEPT !.current_stage = deployer_stage],
              <<>>, <<>>, <<>>, IF r.success THEN "deployed" ELSE "failed")

\* mutant: a failed deployment is only printed, not appended to errors
deployer_node_Silent(st, vercel_token, out) ==
    IF NoProjectName(st) THEN Raise(st)
    ELSE
    LET r   == deploy_to_vercel(vercel_token, st.development_plan[1].project_name[1],
                                st.github_repo, out)
        st1 == IF r.success
               THEN [st EXCEPT !.deployment_url = r.url, !.deployment_platform = "vercel"]
               ELSE st
    IN  Yield([st1 EXCEPT !.current_stage = deployer_stage],
              <<>>, <<>>, <<>>, IF r.success THEN "deployed" ELSE "failed")

deployer_node(st, vercel_token, out) ==
    IF NoProjectName(st) THEN Raise(st)
    ELSE
    LET r   == deploy_to_vercel(vercel_token, st.development_plan[1].project_name[1],
                                st.github_repo, out)
        st1 == IF r.success
               THEN [st EXCEPT !.deployment_url = r.url, !.deployment_platform = "vercel"]
               ELSE [st EXCEPT !.errors = Append(@, "Deployment failed: " \o r.error)]
    IN  Yield([st1 EXCEPT !.current_stage = deployer_stage],
              <<>>, <<>>, <<>>, IF r.success THEN "deployed" ELSE "failed")

\* the project directory after the handlers that returned st: save_file wrote
\* every entry of code_files, then of unit_tests, then of e2e_tests, each to
\* PROJECT_DIR / project_name / filename, a later write replacing an earlier one
project_store(st) == Merge(Merge(st.code_files, st.unit_tests), st.e2e_tests)

(***************************************************************************)
(* The workflow: the compiled graph runs one node at a time; a handler     *)
(* that raises ends the stream, and run_development reports it.            *)
(***************************************************************************)
NoCall == [node |-> "none", raised |-> FALSE, ops |-> <<>>, http |-> <<>>,
           gens |-> <<>>, deploy |-> "none"]

NoTraffic == [create_calls |-> 0, create_requests |-> 0, after_local |-> 0,
              failed |-> FALSE]

CountOps(ops, name) == Cardinality({i \in 1..Len(ops) : ops[i].name = name})

\* the collaborator calls of one handler call that reported a failure
Failures(y) ==
    Cardinality({i \in 1..Len(y.ops) : ~y.ops[i].success})
    + Cardinality({i \in 1..Len(y.gens) : ~y.gens[i]})
    + (IF y.deploy = "failed" THEN 1 ELSE 0)

Traffic(n, st, y) ==
    [create_calls    |-> n.create_calls + CountOps(y.ops, "create_repo"),
     create_requests |-> n.create_requests +
                         Cardinality({i \in 1..Len(y.http) : y.http[i].m = "POST"}),
     after_local     |-> n.after_local +
                         (IF IsLocalOnly(st) THEN Len(y.ops) + Len(y.http) ELSE 0),
     failed          |-> n.failed \/ Failures(y) > 0]

\* the stream runs `node`, whose handler yields y
Step(node, y) ==
    /\ pc = node
    /\ pre' = state
    /\ last' = [node |-> node, raised |-> y.raised, ops |-> y.ops, http |-> y.http,
                gens |-> y.gens, deploy |-> y.deploy]
    /\ visited' = Append(visited, node)
    /\ state' = IF y.raised THEN state ELSE y.st
    /\ pc' = IF y.raised THEN "raised" ELSE NextNode(node)
    /\ net' = Traffic(net, state, y)
    /\ UNCHANGED <<entry, input, env, result, gatevars, scanvars, testvars, runvars>>

GithubStep(node) ==
    \E create \in CreateOutcomes :
        \E outs \in [1..BatchSize(state) -> CommitOutcomes] :
            Step(node, github_agent_node(state, env.github_token, create, outs))

github_init == GithubStep("github_init")

planner == \E gen \in PlannerGens : Step("planner", planner_node(state, gen))

developer ==
    \E code_gen \in ArtifactGens, test_gen \in ArtifactGens :
        Step("developer", developer_node(state, code_gen, test_gen))

github_commit_code == GithubStep("github_commit_code")

tester == \E gen \in ArtifactGens : Step("tester", tester_node(state, gen))

github_commit_tests == GithubStep("github_commit_tests")

deployer ==
    \E out \in DeployOutcomes :
        Step("deployer", deployer_node(state, env.vercel_token, out))

github_commit_deploy == GithubStep("github_commit_deploy")

\* run_development: "success" after the stream ends, "error" when it raised
run_development_return ==
    /\ pc \in {"END", "raised"}
    /\ result' = Some(IF pc = "END" THEN "success" ELSE "error")
    /\ pc' = "returned"
    /\ UNCHANGED <<state, pre, last, visited, entry, input, env, net,
                   gatevars, scanvars, testvars, runvars>>

WorkflowNext ==
    \/ github_init
    \/ planner
    \/ developer
    \/ github_commit_code
    \/ tester
    \/ github_commit_tests
    \/ deployer
    \/ github_commit_deploy
    \/ run_development_return

(***************************************************************************)
(* The requirements gate: manager_agent and chat_with_manager.  A message  *)
(* is a sequence of words; str.lower and the substring test are modelled   *)
(* word by word.                                                           *)
(***************************************************************************)
\* str.lower, per word
Lower(w) ==
    CASE w = "Looks"   -> "looks"
      [] w = "GOOD"    -> "good"
      [] w = "PROCEED" -> "proceed"
      [] OTHER         -> w

LowerAll(msg) == [i \in 1..Len(msg) |-> Lower(msg[i])]

approval_keywords ==
    {<<"approved">>, <<"looks", "good">>, <<"proceed">>, <<"start", "building">>,
     <<"yes", "that's", "good">>, <<"perfect">>, <<"correct">>, <<"satisfied">>}

\* the lower-case words that hold another word inside them
Embedded(w) ==
    CASE w = "incorrect"  -> "correct"
      [] w = "unapproved" -> "approved"
      [] OTHER            -> w

\* mutant: the message is searched as typed, without .lower()
KeywordIn_CaseSensitive(keyword, msg) ==
    \/ Contains(msg, keyword)
    \/ Len(keyword) = 1 /\ \E i \in 1..Len(msg) : Embedded(msg[i]) = keyword[1]

\* keyword in user_message.lower()
KeywordIn(keyword, msg) ==
    \/ Contains(LowerAll(msg), keyword)
    \/ Len(keyword) = 1 /\ \E i \in 1..Len(msg) : Embedded(Lower(msg[i])) = keyword[1]

IsApproval(msg) == \E keyword \in approval_keywords : KeywordIn(keyword, msg)

Messages ==
    {<<"looks", "good">>, <<"Looks", "GOOD">>, <<"it", "looks", "good", "to", "me">>,
     <<"looks", "really", "good">>, <<"hello">>, <<"incorrect">>, <<"PROCEED">>, <<>>}

GateGens == {GenFailure, GenSuccess(<<"reply">>), GenSuccess(<<>>)}

Turn(role, content) == [role |-> role, content |-> content]

\* mutant: when the generation fails no assistant entry is appended
manager_agent_DropOnFailure(user_message, conversation_history, gen) ==
    LET h1          == Append(conversation_history, Turn("user", user_message))
        is_approved == IsApproval(user_message)
        response    == IF is_approved
                       THEN <<"Requirements Approved!">> \o gen.content \o <<"Proceeding">>
                       ELSE gen.content
    IN  [response    |-> response,
         history     |-> IF gen.success THEN Append(h1, Turn("assistant", response))
                         ELSE h1,
         is_approved |-> is_approved]

\* returns (response, conversation_history, is_approved)
manager_agent(user_message, conversation_history, gen) ==
    LET h1          == Append(conversation_history, Turn("user", user_message))
        is_approved == IsApproval(user_message)
        response    == IF is_approved
                       THEN <<"Requirements Approved!">> \o gen.content \o <<"Proceeding">>
                       ELSE gen.content
    IN  [response    |-> response,
         history     |-> Append(h1, Turn("assistant", response)),
         is_approved |-> is_approved]

NewGate == [conversation_history |-> <<>>, requirements |-> None]

NoChat == [called |-> FALSE, message |-> <<>>, response |-> <<>>, status |-> "none",
           before |-> <<>>, requirements_before |-> None, gen_success |-> FALSE]

chat_with_manager ==
    /\ Len(gate.conversation_history) < 2 * MaxTurns
    /\ \E user_message \in Messages, gen \in GateGens :
         LET r == manager_agent(user_message, gate.conversation_history, gen)
         IN  /\ gate' = [conversation_history |-> r.history,
                         requirements |-> IF r.is_approved THEN Some(r.response)
                                          ELSE gate.requirements]
             /\ glast' = [called |-> TRUE, message |-> user_message,
                          response |-> r.response,
                          status |-> IF r.is_approved THEN "approved" ELSE "continue",
                          before |-> gate.conversation_history,
                          requirements_before |-> gate.requirements,
                          gen_success |-> gen.success]
    /\ UNCHANGED <<wfvars, scanvars, testvars, runvars>>

(***************************************************************************)
(* The artifact scan on its own: on texts built from chunks, and on the    *)
(* texts that serialize a mapping.                                         *)
(***************************************************************************)
Chunks == {START, SEP, ENDM, <<"a">>, <<"x">>, <<WS>>}

ChunkTexts == {Concat(cs) : cs \in SeqsUpTo(Chunks, MaxChunks)}

\* one entry on three lines: '===FILE: <path>===', the content, '===END FILE==='
Serialize1(e) == File(e.k, e.v) \o <<WS>>

RECURSIVE Serialize(_)
Serialize(m) == IF m = <<>> THEN <<>> ELSE Serialize1(Head(m)) \o Serialize(Tail(m))

RtPaths ==
    {<<"a">>, <<"b">>, <<"a", WS, "b">>, <<WS, "a">>, <<"a", "=">>, <<>>}

RtContents ==
    {<<"x">>, <<>>, <<"x", WS, "y">>, <<"x", "=", "=", "=", "y">>, <<WS, "x">>,
     <<"x">> \o ENDM \o <<"y">>, START \o <<"b">>}

Entries == {[k |-> p, v |-> c] : p \in RtPaths, c \in RtContents}

Mappings ==
    {m \in SeqsUpTo(Entries, MaxEntries) :
        \A i, j \in 1..Len(m) : i # j => m[i].k # m[j].k}

scan_artifacts ==
    /\ IsNone(pout)
    /\ pout' = Some(ParseArtifacts(ptext))
    /\ UNCHANGED <<ptext, psrc, wfvars, gatevars, testvars, runvars>>

(***************************************************************************)
(* run_unit_tests.  The runner's stdout is what json.loads makes of it     *)
(* ("invalid": it raises; "object": a dict; "other": any other JSON value) *)
(* together with its glyphs; "PASS" and "FAIL" are the check and the cross.*)
(***************************************************************************)
Glyphs == {"PASS", "FAIL", "o"}

Streams == SeqsUpTo(Glyphs, MaxOut)

Counts == {None} \cup {Some(n) : n \in 0..MaxCount}

Reports ==
    [kind : {"object"}, total : Counts, passed : Counts, failed : Counts,
     details : {None, Some(<<"t1">>)}]
    \cup
    [kind : {"invalid", "other"}, total : {None}, passed : {None}, failed : {None},
     details : {None}]

NoReport ==
    [kind |-> "invalid", total |-> None, passed |-> None, failed |-> None,
     details |-> None]

\* a subprocess that raises (a timeout, a missing executable) leaves no output;
\* a parsed report comes with or without glyphs in its text
RunnerOutputs ==
    [install : {"raises"}, run : {"ok"}, json : {NoReport}, stdout : {<<>>},
     stderr : {<<>>}]
    \cup
    [install : {"ok"}, run : {"raises"}, json : {NoReport}, stdout : {<<>>},
     stderr : {<<>>}]
    \cup
    [install : {"ok"}, run : {"ok"}, json : {r \in Reports : r.kind = "object"},
     stdout : {<<>>, <<"PASS">>}, stderr : {<<>>, <<"FAIL">>}]
    \cup
    [install : {"ok"}, run : {"ok"}, json : {r \in Reports : r.kind # "object"},
     stdout : Streams, stderr : Streams]

\* data.get(key, default)
GetOr(field, default) == IF IsNone(field) THEN default ELSE field[1]

Summary(success, total, passed, failed, details, error) ==
    [success |-> success, total |-> total, passed |-> passed, failed |-> failed,
     details |-> details, error |-> error]

\* mutant: the total counts the passes only
run_unit_tests_fallback_PassOnly(lines) ==
    Summary(TRUE, Count(lines, "PASS"), Count(lines, "PASS"), Count(lines, "FAIL"),
            Some(<<>>), None)

\* the fallback: count the glyphs in stdout + stderr
run_unit_tests_fallback(lines) ==
    Summary(TRUE, Count(lines, "PASS") + Count(lines, "FAIL"), Count(lines, "PASS"),
            Count(lines, "FAIL"), Some(<<>>), None)

run_unit_tests(out) ==
    IF out.install = "raises" \/ out.run = "raises"
    THEN Summary(FALSE, 0, 0, 0, None, Some("error"))
    ELSE IF out.json.kind = "object"
    THEN Summary(TRUE, GetOr(out.json.total, 0), GetOr(out.json.passed, 0),
                 GetOr(out.json.failed, 0), Some(GetOr(out.json.details, <<>>)), None)
    ELSE run_unit_tests_fallback(out.stdout \o out.stderr)

unit_tests_run ==
    /\ IsNone(tout)
    /\ tout' = Some(run_unit_tests(tin))
    /\ UNCHANGED <<tin, ein, eout, server, wfvars, gatevars, scanvars, runvars>>

(***************************************************************************)
(* run_e2e_tests.  The report is what json.loads makes of the runner's     *)
(* stdout: "invalid" (it raises), "other" (a value without .get) or an     *)
(* "object" whose 'suites' hold specs, which hold tests.  A test is named  *)
(* by what the loop reads of it: "passed" and "failed" carry that status   *)
(* and no 'error'; "passed_err" and "failed_msg" carry an 'error' object   *)
(* with a message; "unknown" has no 'status'; "failed_null" is a failed    *)
(* test whose 'error' is null or a string; "malformed" is an entry that is *)
(* not an object.                                                          *)
(***************************************************************************)
E2ETests ==
    {"passed", "passed_err", "failed", "failed_msg", "failed_null", "unknown",
     "malformed"}

\* the loop body raises AttributeError: on test.get for an entry that is not
\* an object, on .get('message') for an 'error' that is not an object
LoopRaises(test) == test \in {"malformed", "failed_null"}

\* test.get('status', 'unknown')
Status(test) ==
    CASE test \in {"passed", "passed_err"} -> "passed"
      [] test \in {"failed", "failed_msg", "failed_null"} -> "failed"
      [] OTHER -> "unknown"

\* test.get('error', {}).get('message')
ErrorMessage(test) ==
    IF test \in {"passed_err", "failed_msg"} THEN Some("message") ELSE None

\* the entry appended to details
Detail(test) ==
    [status |-> Status(test),
     error  |-> IF Status(test) # "passed" THEN ErrorMessage(test) ELSE None]

Specs == SeqsUpTo(E2ETests, MaxTests)

\* a suite of at most one spec, a report of at most two suites
Suites == {<<>>} \cup {<<sp>> : sp \in Specs}

SuiteLists == {<<>>} \cup {<<a>> : a \in Suites} \cup {<<a, b>> : a, b \in Suites}

E2EReports ==
    [kind : {"invalid", "other"}, suites : {None}]
    \cup
    [kind : {"object"}, suites : {None} \cup {Some(l) : l \in SuiteLists}]

NoE2EReport == [kind |-> "invalid", suites |-> None]

\* each of the three subprocesses (playwright install, the dev server, the
\* test run) may fail to launch or time out
E2EOutputs ==
    [install : {"raises"}, server : {"ok"}, run : {"ok"}, json : {NoE2EReport}]
    \cup
    [install : {"ok"}, server : {"raises"}, run : {"ok"}, json : {NoE2EReport}]
    \cup
    [install : {"ok"}, server : {"ok"}, run : {"raises"}, json : {NoE2EReport}]
    \cup
    [install : {"ok"}, server : {"ok"}, run : {"ok"}, json : E2EReports]

\* for suite in suites: for spec in suite['specs']: for test in spec['tests']
TestsOf(suites) == Concat([i \in 1..Len(suites) |-> Concat(suites[i])])

\* the body of the innermost loop
E2ETally(acc, test) ==
    IF acc.raised \/ LoopRaises(test) THEN [acc EXCEPT !.raised = TRUE]
    ELSE [acc EXCEPT !.total = @ + 1,
                     !.passed = @ + (IF Status(test) = "passed" THEN 1 ELSE 0),
                     !.failed = @ + (IF Status(test) = "passed" THEN 0 ELSE 1),
                     !.details = Append(@, Detail(test))]

RECURSIVE E2ELoop(_, _)
E2ELoop(acc, tests) ==
    IF tests = <<>> THEN acc ELSE E2ELoop(E2ETally(acc, Head(tests)), Tail(tests))

\* mutant: a report that cannot be read is passed on as an empty success
run_e2e_parse_failure_Success == Summary(TRUE, 0, 0, 0, Some(<<>>), None)

\* the inner except: "Failed to parse test results"
run_e2e_parse_failure ==
    Summary(FALSE, 0, 0, 0, None, Some("Failed to parse test results"))

run_e2e_tests(out) ==
    IF out.install = "raises" \/ out.server = "raises" \/ out.run = "raises"
    THEN Summary(FALSE, 0, 0, 0, None, Some("error"))
    ELSE IF out.json.kind # "object" THEN run_e2e_parse_failure
    ELSE LET t == E2ELoop([total |-> 0, passed |-> 0, failed |-> 0, details |-> <<>>,
                           raised |-> FALSE],
                          TestsOf(GetOr(out.json.suites, <<>>)))
         IN  IF t.raised THEN run_e2e_parse_failure
             ELSE Summary(TRUE, t.total, t.passed, t.failed, Some(t.details), None)

\* the dev-server process when run_e2e_tests returns: Popen is reached once
\* the install has returned, and terminate() and wait() once the test run
\* has returned
dev_server_at_return(out) ==
    IF out.install = "raises" \/ out.server = "raises" THEN "none"
    ELSE IF out.run = "raises" THEN "running"
    ELSE "terminated"

e2e_tests_run ==
    /\ IsNone(eout)
    /\ eout' = Some(run_e2e_tests(ein))
    /\ server' = dev_server_at_return(ein)
    /\ UNCHANGED <<ein, tin, tout, wfvars, gatevars, scanvars, runvars>>

TestsNext == unit_tests_run \/ e2e_tests_run

(***************************************************************************)
(* Initial states and specifications.                                      *)
(***************************************************************************)
Environments == [github_token : BOOLEAN, vercel_token : BOOLEAN]

SeededPlan == Some(Plan(Some("Todo App")))

\* The workflow is entered at github_init with the record of run_development,
\* or with that record and a plan already in it; or at planner, with the
\* record github_init is written to leave behind for a run without a plan.
EntryStates(node, e) ==
    IF node = "github_init"
    THEN {initial_state, [initial_state EXCEPT !.development_plan = SeededPlan]}
    ELSE {[initial_state EXCEPT !.github_repo = Some(LocalRepo("react-app"))]}
         \cup (IF e.github_token
               THEN {[initial_state EXCEPT
                        !.github_repo = Some(RealRepo("react-app", "octo"))]}
               ELSE {})

WorkflowInit ==
    /\ entry \in {"github_init", "planner"}
    /\ env \in Environments
    /\ input \in EntryStates(entry, env)
    /\ state = input
    /\ pre = input
    /\ pc = entry
    /\ last = NoCall
    /\ visited = <<>>
    /\ net = NoTraffic
    /\ result = None

WorkflowIdle ==
    /\ entry = "none"
    /\ env = [github_token |-> FALSE, vercel_token |-> FALSE]
    /\ input = initial_state
    /\ state = initial_state
    /\ pre = initial_state
    /\ pc = "idle"
    /\ last = NoCall
    /\ visited = <<>>
    /\ net = NoTraffic
    /\ result = None

GateInit == gate = NewGate /\ glast = NoChat

ScanIdle == ptext = <<>> /\ psrc = None /\ pout = None

ScanInit ==
    /\ pout = None
    /\ \/ psrc = None /\ ptext \in ChunkTexts
       \/ \E m \in Mappings : psrc = Some(m) /\ ptext = Serialize(m)

NoRunnerOutput ==
    [install |-> "ok", run |-> "ok", json |-> NoReport, stdout |-> <<>>,
     stderr |-> <<>>]

NoE2EOutput == [install |-> "ok", server |-> "ok", run |-> "ok", json |-> NoE2EReport]

TestIdle ==
    /\ tin = NoRunnerOutput
    /\ tout = None
    /\ ein = NoE2EOutput
    /\ eout = None
    /\ server = "none"

\* one of the two executors is given an output of its runner
TestInit ==
    /\ tout = None
    /\ eout = None
    /\ server = "none"
    /\ \/ tin \in RunnerOutputs /\ ein = NoE2EOutput
       \/ tin = NoRunnerOutput /\ ein \in E2EOutputs

(***************************************************************************)
(* Several calls of run_development on the one compiled workflow.  Every   *)
(* call builds its own initial_state and a thread_id from the clock, and   *)
(* streams the graph; the checkpointer compiled into workflow_app keeps,   *)
(* per thread_id, the values and the next node after each node that        *)
(* returned, and aget_state reads the entry of the thread_id back.         *)
(***************************************************************************)
RunIds == 1..MaxRuns

ThreadIds == 0..MaxClock

\* f"dev-{datetime.now().strftime('%Y%m%d%H%M%S')}": one value per second
thread_id(now) == now

NotStarted ==
    [started |-> FALSE, thread_id |-> 0, pc |-> "idle", state |-> initial_state,
     done |-> 0, began |-> None, resumable |-> {}, result |-> None]

Checkpoint(values, next) == [values |-> values, next |-> next]

\* the run was ended by a handler that raised
Halted(r) == runs[r].started /\ runs[r].pc \in {"raised", "returned_error"}

\* the checkpoints of the runs that halted after completing a stage
HaltedCheckpoints ==
    {checkpoints[runs[q].thread_id][1] :
        q \in {x \in RunIds : Halted(x) /\ runs[x].done >= 1}}

\* what the planner and the generating stages are answered in these runs
RunPlannerGens == {GenFailure, GenSuccess(<<"{", "pn", "}">>)}

RunArtifactGens ==
    {GenFailure, GenSuccess(File(<<"a">>, <<"x">>)),
     GenSuccess(START \o SEP \o <<"x">> \o ENDM)}

\* the handler of `node`, called on st
NodeYields(node, st) ==
    CASE node \in GithubNodes ->
           {github_agent_node(st, env.github_token, create,
                              [i \in 1..BatchSize(st) |-> [get |-> "404", put |-> "201"]]) :
              create \in CreateOutcomes}
      [] node = "planner" -> {planner_node(st, gen) : gen \in RunPlannerGens}
      [] node = "developer" ->
           {developer_node(st, code_gen, test_gen) :
              code_gen \in RunArtifactGens, test_gen \in {GenSuccess(<<"x">>)}}
      [] node = "tester" -> {tester_node(st, gen) : gen \in RunArtifactGens}
      [] node = "deployer" ->
           {deployer_node(st, env.vercel_token, out) : out \in DeployOutcomes}

tick ==
    /\ clock < MaxClock
    /\ clock' = clock + 1
    /\ UNCHANGED <<runs, checkpoints, wfvars, gatevars, scanvars, testvars>>

\* run_development up to the first astream event: initial_state, config
run_development_start(r) ==
    /\ ~runs[r].started
    /\ IF r = 1 THEN TRUE ELSE runs[r - 1].started
    /\ \E st \in EntryStates("github_init", env) :
         runs' = [runs EXCEPT ![r] =
                    [started   |-> TRUE,
                     thread_id |-> thread_id(clock),
                     pc        |-> "github_init",
                     state     |-> st,
                     done      |-> 0,
                     began     |-> Some(Checkpoint(st, "github_init")),
                     resumable |-> HaltedCheckpoints,
                     result    |-> None]]
    /\ UNCHANGED <<clock, checkpoints, wfvars, gatevars, scanvars, testvars>>

\* one event of the stream: the node runs, and its result is checkpointed
stream_node(r) ==
    /\ runs[r].started
    /\ runs[r].pc \in NodeSet
    /\ \E y \in NodeYields(runs[r].pc, runs[r].state) :
         IF y.raised
         THEN /\ runs' = [runs EXCEPT ![r].pc = "raised"]
              /\ UNCHANGED checkpoints
         ELSE /\ runs' = [runs EXCEPT ![r].state = y.st,
                                      ![r].pc = NextNode(runs[r].pc),
                                      ![r].done = @ + 1]
              /\ checkpoints' =
                   [checkpoints EXCEPT ![runs[r].thread_id] =
                      Some(Checkpoint(y.st, NextNode(runs[r].pc)))]
    /\ UNCHANGED <<clock, wfvars, gatevars, scanvars, testvars>>

\* after the stream: self.state = aget_state(config).values and 'success',
\* or the except branch and 'error'
run_development_finish(r) ==
    /\ runs[r].started
    /\ runs[r].pc \in {"END", "raised"}
    /\ runs' = [runs EXCEPT
                  ![r].pc = IF runs[r].pc = "END" THEN "returned" ELSE "returned_error",
                  ![r].result =
                     IF runs[r].pc = "END"
                     THEN Some([status |-> "success",
                                values |-> Some(checkpoints[runs[r].thread_id][1].values)])
                     ELSE Some([status |-> "error", values |-> None])]
    /\ UNCHANGED <<clock, checkpoints, wfvars, gatevars, scanvars, testvars>>

RunsNext ==
    \/ tick
    \/ \E r \in RunIds : run_development_start(r)
    \/ \E r \in RunIds : stream_node(r)
    \/ \E r \in RunIds : run_development_finish(r)

RunsIdle ==
    /\ clock = 0
    /\ runs = [r \in RunIds |-> NotStarted]
    /\ checkpoints = [t \in ThreadIds |-> None]

(***************************************************************************)
(* Large milestones: the workflow from the developer stage on, with a real *)
(* repository, when the generator returns up to MaxFiles files in a text.  *)
(***************************************************************************)
FilePath(i) == <<"f" \o ToString(i)>>

\* the text of n files f1 .. fn, each with the given content
RECURSIVE FilesText(_, _)
FilesText(n, content) ==
    IF n = 0 THEN <<>>
    ELSE FilesText(n - 1, content) \o File(FilePath(n), content) \o <<WS>>

CodeGens == {GenFailure} \cup {GenSuccess(FilesText(n, <<"code">>)) : n \in 0..MaxFiles}

\* unit tests: none, or two files of which f1 is also a path of the code
UnitGens ==
    {GenFailure,
     GenSuccess(File(<<"t1">>, <<"test">>) \o <<WS>> \o File(FilePath(1), <<"test">>))}

E2EGens ==
    {GenFailure, GenSuccess(File(<<"e1">>, <<"e2e">>)),
     GenSuccess(FilesText(MaxFiles, <<"e2e">>))}

\* what the files of one batch meet: all created, all refused, or an
\* exception on the first and the others created
BatchOutcomes(n) ==
    {[i \in 1..n |-> [get |-> "404", put |-> "201"]],
     [i \in 1..n |-> [get |-> "200sha", put |-> "error"]],
     [i \in 1..n |-> IF i = 1 THEN [get |-> "error", put |-> "none"]
                                ELSE [get |-> "200sha", put |-> "200"]]}

\* the state github_init and planner leave for the developer stage
BatchEntryState ==
    [initial_state EXCEPT !.development_plan = SeededPlan,
                          !.github_repo = Some(RealRepo("todo-app", "octo")),
                          !.current_stage = planner_stage]

BatchInit ==
    /\ entry = "developer"
    /\ env \in {e \in Environments : e.github_token}
    /\ input = BatchEntryState
    /\ state = input
    /\ pre = input
    /\ pc = entry
    /\ last = NoCall
    /\ visited = <<>>
    /\ net = NoTraffic
    /\ result = None

batch_developer ==
    \E code_gen \in CodeGens, test_gen \in UnitGens :
        Step("developer", developer_node(state, code_gen, test_gen))

batch_tester == \E gen \in E2EGens : Step("tester", tester_node(state, gen))

batch_commit ==
    \E node \in GithubNodes \ {"github_init"} :
        \E outs \in BatchOutcomes(BatchSize(state)) :
            Step(node, github_agent_node(state, env.github_token, "201", outs))

BatchNext ==
    \/ batch_developer
    \/ batch_commit
    \/ batch_tester
    \/ deployer
    \/ run_development_return

Init == WorkflowInit /\ GateInit /\ ScanIdle /\ TestIdle /\ RunsIdle

Next == WorkflowNext

\* the workflow
Spec == Init /\ [][Next]_vars

\* the requirements gate
InitGate == WorkflowIdle /\ GateInit /\ ScanIdle /\ TestIdle /\ RunsIdle

SpecGate == InitGate /\ [][chat_with_manager]_vars

\* the artifact scan
InitScan == WorkflowIdle /\ GateInit /\ ScanInit /\ TestIdle /\ RunsIdle

SpecScan == InitScan /\ [][scan_artifacts]_vars

\* the two test executors
InitTests == WorkflowIdle /\ GateInit /\ ScanIdle /\ TestInit /\ RunsIdle

SpecTests == InitTests /\ [][TestsNext]_vars

\* several runs on one workflow_app
InitRuns == WorkflowIdle /\ GateInit /\ ScanIdle /\ TestIdle /\ RunsIdle

SpecRuns == InitRuns /\ [][RunsNext]_vars

\* large milestones
InitBatch == BatchInit /\ GateInit /\ ScanIdle /\ TestIdle /\ RunsIdle

SpecBatch == InitBatch /\ [][BatchNext]_vars

(***************************************************************************)
(* Properties of the workflow (checked under Spec).                        *)
(***************************************************************************)
\* the execution is a run started by run_development
FromRunDevelopment == entry = "github_init" /\ input = initial_state

\* no collaborator call has reported a failure and nothing was logged to errors
AllSucceeded == ~net.failed /\ state.errors = <<>>

IsPrefix(s, t) == Len(s) <= Len(t) /\ \A i \in 1..Len(s) : s[i] = t[i]

\* C1: a run started from run_development's initial state, with every
\* collaborator call succeeding, runs the eight handlers in order, each once,
\* without any handler raising, and ends at END with current_stage
\* 'deployment_complete'.
C1_RunCompletes ==
    (FromRunDevelopment /\ AllSucceeded) =>
        /\ pc # "raised"
        /\ result # Some("error")
        /\ IsPrefix(visited, Nodes)
        /\ pc \in {"END", "returned"} =>
             visited = Nodes /\ state.current_stage = "deployment_complete"

\* the last handler call was a generating stage that returned after the
\* generation collaborator had answered success = false
GenerationFailed ==
    /\ last.node \in GeneratingNodes
    /\ ~last.raised
    /\ \E i \in 1..Len(last.gens) : ~last.gens[i]

C3_CreateRepoAtMostOnce ==
    /\ net.create_calls <= 1
    /\ net.create_requests <= 1
    /\ (last.node # "none" /\ ~IsNone(pre.github_repo)) =>
         /\ state.github_repo = pre.github_repo
         /\ CountOps(last.ops, "create_repo") = 0
         /\ \A i \in 1..Len(last.http) : last.http[i].m # "POST"

\* C3 witness: after a creation, a commit node was called with the repository
\* set and sent its requests
C3_Witness ==
    /\ last.node = "github_commit_code"
    /\ ~last.raised
    /\ net.create_calls = 1
    /\ IsRealRepo(pre)
    /\ Len(last.http) > 0

\* C4: in every commit_file the GET of the path comes before the PUT, and the
\* PUT payload carries 'sha' exactly when the GET answered 200 with a sha.
C4_ReadBeforeWrite ==
    \A i \in 1..Len(last.http) :
        last.http[i].m = "PUT" =>
            /\ i > 1
            /\ last.http[i - 1].m = "GET"
            /\ last.http[i - 1].path = last.http[i].path
            /\ last.http[i].sha <=> (last.http[i - 1].resp = "200sha")

\* C4 witness: one batch updated an existing path (with its sha) and created
\* a missing one (without)
C4_Witness ==
    /\ \E i \in 1..Len(last.http) : last.http[i].m = "PUT" /\ last.http[i].sha
    /\ \E i \in 1..Len(last.http) :
         /\ last.http[i].m = "PUT"
         /\ ~last.http[i].sha
         /\ last.http[i - 1].resp = "404"

\* C9: no node runs twice in a run, the nodes run in the order of the graph,
\* and current_stage never moves back to the value of an earlier stage.
C9_StageOnlyForward ==
    /\ \A i, j \in 1..Len(visited) : i # j => visited[i] # visited[j]
    /\ \A i \in 1..Len(visited) :
         /\ NodeIndex(entry) + i - 1 <= Len(Nodes)
         /\ visited[i] = Nodes[NodeIndex(entry) + i - 1]
    /\ StageRank(state.current_stage) >= StageRank(pre.current_stage)

\* C9 witness: all eight nodes have run and the stream is at END
C9_Witness ==
    /\ pc = "END"
    /\ Len(visited) = Len(Nodes)
    /\ state.current_stage = "deployment_complete"

\* the last call was github_init, and its create_repo failed
CreateFailed ==
    /\ last.node = "github_init"
    /\ ~last.raised
    /\ \E i \in 1..Len(last.ops) :
         last.ops[i].name = "create_repo" /\ ~last.ops[i].success

\* C10: when the first repository call fails, github_repo becomes the
\* local-only record, and from then on nothing is asked of the source-control
\* collaborator: no commit_file, no second create_repo, no request.
C10_LocalOnlyIsSilent ==
    /\ CreateFailed => IsLocalOnly(state)
    /\ net.after_local = 0
    /\ (last.node # "none" /\ IsLocalOnly(pre)) =>
         /\ last.ops = <<>>
         /\ last.http = <<>>
         /\ IsLocalOnly(state)

\* C10 witness: creation failed on the network, files were generated, and the
\* run went through all three commit nodes to END
C10_Witness ==
    /\ pc = "END"
    /\ IsLocalOnly(state)
    /\ net.create_requests = 1
    /\ state.code_files # EmptyDict
    /\ state.e2e_tests # EmptyDict

\* C12: whenever current_stage is 'code_written', 'tests_written' or
\* 'deployment_complete' (the developer stage or a later one has completed),
\* development_plan is non-null.
C12_PlanPresentFromDeveloper ==
    StageRank(state.current_stage) >= StageRank(developer_stage) =>
        ~IsNone(state.development_plan)

\* C12 witness: a run entered at planner without a plan, whose planner parsed
\* one, has completed the developer stage
C12_Witness ==
    /\ entry = "planner"
    /\ IsNone(input.development_plan)
    /\ last.node = "developer"
    /\ ~last.raised
    /\ state.current_stage = developer_stage

\* the stream has ended: at END, or by a handler that raised
RunEnded == pc \in {"END", "raised", "returned"}

ArtifactParseRaised ==
    /\ last.node \in {"developer", "tester"}
    /\ ~NoProjectName(pre)
    /\ last.raised

DeveloperEnteredWithoutPlan ==
    last.node = "developer" /\ IsNone(pre.development_plan)

\* C19: when the developer stage is entered with development_plan null the
\* run halts there: current_stage, iteration_count and the artifact mappings
\* are as they were, no later handler runs, and run_development returns
\* status 'error'.
C19_NullPlanHaltsAtDeveloper ==
    DeveloperEnteredWithoutPlan =>
        /\ last.raised
        /\ state.current_stage = pre.current_stage
        /\ state.iteration_count = pre.iteration_count
        /\ state.code_files = pre.code_files
        /\ state.unit_tests = pre.unit_tests
        /\ state.e2e_tests = pre.e2e_tests
        /\ visited[Len(visited)] = "developer"
        /\ pc \in {"raised", "returned"}
        /\ pc = "returned" => result = Some("error")

\* C19 witness: the planner's generation failed, the developer stage was
\* entered without a plan, and run_development has returned
C19_Witness ==
    /\ DeveloperEnteredWithoutPlan
    /\ visited = <<"planner", "developer">>
    /\ state.current_stage = planner_stage
    /\ pc = "returned"
    /\ result = Some("error")

\* the planner was the last handler called; it started without a plan and its
\* generation succeeded
PlannerGotText ==
    /\ last.node = "planner"
    /\ last.gens = <<TRUE>>
    /\ IsNone(pre.development_plan)

C21_DeployerNeverRaises ==
    last.node = "deployer" =>
        /\ ~last.raised
        /\ state.current_stage = deployer_stage
        /\ pc = "github_commit_deploy"
        /\ ~env.vercel_token => last.deploy = "failed"
        /\ \/ /\ last.deploy = "deployed"
              /\ ~IsNone(state.deployment_url)
              /\ state.errors = pre.errors
           \/ /\ last.deploy = "failed"
              /\ state.deployment_url = pre.deployment_url
              /\ Len(state.errors) = Len(pre.errors) + 1
              /\ IsPrefix(pre.errors, state.errors)

\* C21 witness: with a token and a real repository the deployment failed, and
\* the final commit stage ran after it
C21_Witness ==
    /\ last.node = "github_commit_deploy"
    /\ ~last.raised
    /\ env.vercel_token
    /\ IsRealRepo(state)
    /\ IsNone(state.deployment_url)
    /\ state.current_stage = deployer_stage
    /\ Len(last.http) > 0

\* the last call was a milestone commit on a real repository
MilestoneCommit ==
    /\ last.node \in GithubNodes
    /\ IsRealRepo(pre)

\* the requests of the last call that read a path
Gets == {i \in 1..Len(last.http) : last.http[i].m = "GET"}

\* C22: in a milestone commit batch a commit_file that fails (an exception or
\* a non-2xx answer) does not end the batch: commit_file is attempted for
\* every file of the batch up to the cap, and github_agent_node returns.
C22_FailedCommitDoesNotAbort ==
    MilestoneCommit =>
        /\ ~last.raised
        /\ state = pre
        /\ Len(last.ops) = BatchSize(pre)
        /\ Cardinality(Gets) = BatchSize(pre)
        /\ \A i \in 1..Len(last.ops) : last.ops[i].name = "commit_file"

\* C22 witness: the first file of a batch met an exception on its GET, the
\* second a refused PUT, and a later file was still committed
C22_Witness ==
    /\ MilestoneCommit
    /\ Len(last.ops) >= 3
    /\ ~last.ops[1].success
    /\ last.http[1].resp = "error"
    /\ ~last.ops[2].success
    /\ last.ops[3].success

\* the last call was a generating stage that returned with an empty mapping
\* (no code files or no unit tests for developer, no end-to-end tests for
\* tester)
ProducedNothing ==
    /\ ~last.raised
    /\ \/ /\ last.node = "developer"
          /\ state.code_files = EmptyDict \/ state.unit_tests = EmptyDict
       \/ /\ last.node = "tester"
          /\ state.e2e_tests = EmptyDict

StoredAsGenerated(d, st) ==
    \A path \in Keys(d) :
        /\ path \in Keys(project_store(st))
        /\ Get(project_store(st), path) = Get(d, path)

C30_ErrorsAppendOnly ==
    /\ last.node # "none" => IsPrefix(pre.errors, state.errors)
    /\ IsPrefix(input.errors, state.errors)

\* C30 witness: the planner had logged a failed parse, and the deployer
\* appended a failed deployment behind it
C30_Witness ==
    /\ last.node = "deployer"
    /\ pre.errors = <<"Failed to parse plan">>
    /\ Len(state.errors) = 2
    /\ state.errors[1] = "Failed to parse plan"

\* C31: in local-only mode (github_repo is the record without an owner) with
\* a deployment token configured, the deployer does not raise: reading
\* github_repo['owner'] fails inside deploy_to_vercel and becomes a failure
\* result, exactly one entry "Deployment failed: 'owner'" is appended to
\* errors, deployment_url stays unset, the run moves on to the final commit
\* stage, and that stage sends nothing and changes nothing.
C31_LocalOnlyDeployFailsSoftly ==
    /\ (last.node = "deployer" /\ IsLocalOnly(pre) /\ env.vercel_token) =>
         /\ ~last.raised
         /\ last.deploy = "failed"
         /\ state.errors = Append(pre.errors, "Deployment failed: 'owner'")
         /\ IsNone(state.deployment_url)
         /\ state.current_stage = deployer_stage
         /\ IsLocalOnly(state)
         /\ pc = "github_commit_deploy"
    /\ (last.node = "github_commit_deploy" /\ IsLocalOnly(pre)) =>
         /\ ~last.raised
         /\ last.ops = <<>>
         /\ last.http = <<>>
         /\ state = pre
         /\ pc \in {"END", "returned"}

\* C31 witness: a local-only run with a deployment token has passed the
\* deployer, which logged the missing owner, and the final commit stage
\* returned without a request
C31_Witness ==
    /\ last.node = "github_commit_deploy"
    /\ ~last.raised
    /\ env.vercel_token
    /\ IsLocalOnly(state)
    /\ Len(state.errors) >= 1
    /\ state.errors[Len(state.errors)] = "Deployment failed: 'owner'"
    /\ IsNone(state.deployment_url)
    /\ last.http = <<>>
    /\ pc = "END"

(***************************************************************************)
(* Properties of the requirements gate (checked under SpecGate).           *)
(***************************************************************************)
\* the message contains 'looks good' in some letter case
MentionsLooksGood(msg) ==
    \E i \in 1..(Len(msg) - 1) :
        /\ msg[i] \in {"looks", "Looks"}
        /\ msg[i + 1] \in {"good", "GOOD"}

\* C5: one call of the gate makes the conversation exactly two entries longer
\* (the user entry, then one assistant entry) on either branch, and a message
\* containing 'looks good' in any letter case is approved and leaves the
\* stored requirements non-null, whether or not the generation succeeded.
C5_LooksGoodApproves ==
    glast.called =>
        /\ gate.conversation_history =
             glast.before \o <<Turn("user", glast.message),
                               Turn("assistant", glast.response)>>
        /\ MentionsLooksGood(glast.message) =>
             /\ glast.status = "approved"
             /\ ~IsNone(gate.requirements)

\* C5 witness: 'Looks GOOD' after an earlier exchange, with the generation
\* collaborator failing
C5_Witness ==
    /\ glast.called
    /\ glast.message = <<"Looks", "GOOD">>
    /\ ~glast.gen_success
    /\ Len(glast.before) = 2
    /\ IsNone(glast.requirements_before)
    /\ glast.status = "approved"

\* C11: in one gate lifetime the stored requirements are assigned only by an
\* approved submission, and once they are set no later submission, approved
\* or not, changes them.
C11_RequirementsSetOnce ==
    glast.called =>
        /\ glast.status # "approved" => gate.requirements = glast.requirements_before
        /\ ~IsNone(glast.requirements_before) =>
             gate.requirements = glast.requirements_before

\* C29: the conversation history only grows, in order: after each call of
\* manager_agent the history before the call is a prefix of the new one, and
\* the history is a sequence of pairs, each user entry directly followed by
\* the assistant entry made for it.
C29_HistoryAppendOnly ==
    LET h == gate.conversation_history
    IN  /\ IsPrefix(glast.before, h)
        /\ Len(h) % 2 = 0
        /\ \A i \in 1..Len(h) :
             h[i].role = (IF i % 2 = 1 THEN "user" ELSE "assistant")
        /\ glast.called =>
             /\ h[Len(h) - 1] = Turn("user", glast.message)
             /\ h[Len(h)] = Turn("assistant", glast.response)

\* C29 witness: three submissions, the second with a failed generation, and
\* six entries in order
C29_Witness ==
    /\ Len(gate.conversation_history) = 6
    /\ gate.conversation_history[4].content = <<"Error">>
    /\ gate.conversation_history[5].role = "user"
    /\ glast.gen_success

(***************************************************************************)
(* Properties of the artifact scan (checked under SpecScan).               *)
(***************************************************************************)
Occurrences(s, pat) == Cardinality({i \in 1..Len(s) : MatchAt(s, pat, i)})

\* a path as a well-formed segment carries it: file-name tokens only
PathText(p) == p # <<>> /\ \A i \in 1..Len(p) : p[i] \in {"a", "b"}

\* no token of a marker
MarkerFree(b) == \A i \in 1..Len(b) : b[i] \notin {"=", "FILE:", "END FILE"}

\* C6: the scan never raises, and every pair it yields comes from one
\* well-formed segment: no pair whose path holds body text, no pair whose body
\* holds marker text, and no pair for a segment without an end marker.
C6_NoCorruptPair ==
    (IsNone(psrc) /\ ~IsNone(pout)) =>
        /\ ~pout[1].raised
        /\ Len(pout[1].files) <= Occurrences(ptext, ENDM)
        /\ \A i \in 1..Len(pout[1].files) :
             /\ PathText(pout[1].files[i].k)
             /\ MarkerFree(pout[1].files[i].v)

\* C7 as stated: every mapping, serialized, scans back to itself.
C7_RoundTripAll ==
    (~IsNone(psrc) /\ ~IsNone(pout)) =>
        ~pout[1].raised /\ SameMapping(pout[1].files, psrc[1])

\* a path the format can carry: not empty, no '=', no blank at either end
CleanPath(p) ==
    /\ p # <<>>
    /\ \A i \in 1..Len(p) : p[i] # "="
    /\ p[1] # WS
    /\ p[Len(p)] # WS

\* a content the format can carry: no blank at either end, neither marker inside
CleanContent(c) ==
    /\ c # <<>> => c[1] # WS /\ c[Len(c)] # WS
    /\ Occurrences(c, START) = 0
    /\ Occurrences(c, ENDM) = 0

CleanMapping(m) ==
    \A i \in 1..Len(m) : CleanPath(m[i].k) /\ CleanContent(m[i].v)

\* C7, amended: a mapping whose paths are non-empty, hold no '=' and no
\* leading or trailing blank, and whose contents hold neither marker and no
\* leading or trailing blank, serialized one part per line, scans back to itself.
C7_RoundTripClean ==
    (~IsNone(psrc) /\ ~IsNone(pout) /\ CleanMapping(psrc[1])) =>
        ~pout[1].raised /\ SameMapping(pout[1].files, psrc[1])

\* C7 witness: two clean entries, one with a blank inside its path and one
\* with '===' inside its content, scanned back
C7_Witness ==
    /\ ~IsNone(psrc)
    /\ ~IsNone(pout)
    /\ Len(psrc[1]) = 2
    /\ CleanMapping(psrc[1])
    /\ psrc[1][1].k = <<"a", WS, "b">>
    /\ psrc[1][2].v = <<"x", "=", "=", "=", "y">>
    /\ Len(pout[1].files) = 2

(***************************************************************************)
(* Properties of the test executors (checked under SpecTests).             *)
(***************************************************************************)
Glyph(s, g) == Cardinality({i \in 1..Len(s) : s[i] = g})

\* C8: when the runner output parses as a report object, total, passed and
\* failed are numTotalTests, numPassedTests and numFailedTests (0 for a field
\* that is missing); when it does not parse, passed and failed are the numbers
\* of pass and fail glyphs in stdout + stderr, total is their sum and details
\* is empty.
C8_UnitAggregation ==
    (~IsNone(tout) /\ tin.install = "ok" /\ tin.run = "ok") =>
        /\ tin.json.kind = "object" =>
             /\ tout[1].total = (IF IsNone(tin.json.total) THEN 0 ELSE tin.json.total[1])
             /\ tout[1].passed = (IF IsNone(tin.json.passed) THEN 0 ELSE tin.json.passed[1])
             /\ tout[1].failed = (IF IsNone(tin.json.failed) THEN 0 ELSE tin.json.failed[1])
        /\ tin.json.kind = "invalid" =>
             /\ tout[1].passed = Glyph(tin.stdout, "PASS") + Glyph(tin.stderr, "PASS")
             /\ tout[1].failed = Glyph(tin.stdout, "FAIL") + Glyph(tin.stderr, "FAIL")
             /\ tout[1].total = tout[1].passed + tout[1].failed
             /\ tout[1].details = Some(<<>>)

\* C8 witness: unparsable output with passes on stdout and a fail on stderr
C8_Witness ==
    /\ ~IsNone(tout)
    /\ tin.install = "ok"
    /\ tin.run = "ok"
    /\ tin.json.kind = "invalid"
    /\ tin.stdout = <<"PASS", "PASS">>
    /\ tin.stderr = <<"FAIL", "o">>
    /\ tout[1].total = 3

\* the counts of a summary are consistent
CountsConsistent(s) ==
    /\ s.total >= 0
    /\ s.passed >= 0
    /\ s.failed >= 0
    /\ s.passed + s.failed <= s.total

\* C13: every summary returned by run_unit_tests or run_e2e_tests, whatever
\* the runner put out, has total, passed and failed >= 0 and
\* passed + failed <= total.
C13_SummaryCountsConsistent ==
    /\ ~IsNone(tout) => CountsConsistent(tout[1])
    /\ ~IsNone(eout) => CountsConsistent(eout[1])

\* the summary of a run of which nothing could be read
FailureSummary(s) ==
    /\ ~s.success
    /\ s.total = 0
    /\ s.passed = 0
    /\ s.failed = 0
    /\ ~IsNone(s.error)

\* a subprocess of the unit-test run failed to launch or timed out
UnitRunFailed == tin.install = "raises" \/ tin.run = "raises"

\* a subprocess of the end-to-end run failed to launch or timed out
E2ERunFailed == ein.install = "raises" \/ ein.server = "raises" \/ ein.run = "raises"

\* the end-to-end report cannot be read: not JSON, not an object, or an entry
\* the loop cannot handle
E2EReportMalformed ==
    \/ ein.json.kind # "object"
    \/ /\ ~IsNone(ein.json.suites)
       /\ \E i \in 1..Len(TestsOf(ein.json.suites[1])) :
             TestsOf(ein.json.suites[1])[i] \in {"malformed", "failed_null"}

\* C14: run_unit_tests and run_e2e_tests always return a summary; after a
\* failed subprocess, and after a report that neither the structured nor a
\* fallback parse can read, the summary has success = false, total = passed =
\* failed = 0 and an error string; a unit-test report that is not JSON is
\* read by the fallback and returned as a success.
C14_ExecutorsAbsorbFailures ==
    /\ ~IsNone(tout) =>
          /\ UnitRunFailed => FailureSummary(tout[1])
          /\ ~UnitRunFailed => tout[1].success /\ IsNone(tout[1].error)
    /\ ~IsNone(eout) =>
          /\ (E2ERunFailed \/ E2EReportMalformed) => FailureSummary(eout[1])
          /\ ~(E2ERunFailed \/ E2EReportMalformed) =>
                eout[1].success /\ IsNone(eout[1].error)

\* C14 witness: an end-to-end report whose second suite holds an entry the
\* loop raises on, after a test that passed
C14_Witness ==
    /\ ~IsNone(eout)
    /\ ~E2ERunFailed
    /\ ein.json.kind = "object"
    /\ ein.json.suites = Some(<<<<<<"passed">>>>, <<<<"failed", "malformed">>>>>>)
    /\ FailureSummary(eout[1])

\* the tests of the report, in report order
ReportTests == TestsOf(GetOr(ein.json.suites, <<>>))

\* the report is an object of suites, specs and tests, every entry an object
E2EReportOfTests ==
    /\ ~IsNone(eout)
    /\ ~E2ERunFailed
    /\ ein.json.kind = "object"
    /\ \A i \in 1..Len(ReportTests) : ReportTests[i] # "malformed"

\* C25: for a report of suites, specs and tests, total is the number of
\* tests, passed the number whose status is 'passed', failed the number of
\* all others (a test without status is recorded as 'unknown'), so passed +
\* failed = total; details has one entry per test in report order, and an
\* entry has an error message only if its test did not pass.
C25_E2EAggregation ==
    E2EReportOfTests =>
        LET tests == ReportTests
            sum   == eout[1]
        IN  /\ sum.success
            /\ sum.total = Len(tests)
            /\ sum.passed =
                 Cardinality({i \in 1..Len(tests) : tests[i] \in {"passed", "passed_err"}})
            /\ sum.failed = sum.total - sum.passed
            /\ Len(sum.details[1]) = Len(tests)
            /\ \A i \in 1..Len(tests) :
                 /\ sum.details[1][i].status =
                      (CASE tests[i] \in {"passed", "passed_err"} -> "passed"
                         [] tests[i] \in {"failed", "failed_msg", "failed_null"} -> "failed"
                         [] OTHER -> "unknown")
                 /\ ~IsNone(sum.details[1][i].error) =>
                      sum.details[1][i].status # "passed"

\* C26: run_e2e_tests never returns with the dev server it started still
\* running, whichever way it is left.
C26_DevServerTerminated ==
    ~IsNone(eout) => server # "running"

(***************************************************************************)
(* Properties of the milestone commits (checked under SpecBatch).          *)
(***************************************************************************)
\* the paths read by the last call, in the order of the requests
GetPaths ==
    LET gets == SelectSeq(last.http, LAMBDA q : q.m = "GET")
    IN  [i \in 1..Len(gets) |-> gets[i].path]

\* the paths of the first n entries of a mapping, in insertion order
FirstKeys(d, n) == [i \in 1..(IF Len(d) <= n THEN Len(d) ELSE n) |-> d[i].k]

\* the mapping a commit node is to commit, by the node's place in the graph
MilestoneMapping(node, st) ==
    CASE node = "github_commit_code" ->
           [path \in Keys(st.code_files) \cup Keys(st.unit_tests) |->
              IF path \in Keys(st.unit_tests) THEN Get(st.unit_tests, path)
              ELSE Get(st.code_files, path)]
      [] node = "github_commit_tests" ->
           [path \in Keys(st.e2e_tests) |-> Get(st.e2e_tests, path)]
      [] node = "github_commit_deploy" ->
           [path \in {<<"README.md">>} |->
              <<"#", "todo-app", "Live:">> \o
              (IF IsNone(st.deployment_url) THEN <<"None">> ELSE st.deployment_url)]

MilestoneMessage(node) ==
    CASE node = "github_commit_code" -> "feat: Add application code with unit tests"
      [] node = "github_commit_tests" -> "test: Add E2E Playwright tests"
      [] node = "github_commit_deploy" -> "docs: Add deployment URL"

\* C23: one milestone commit issues at most 10 commit_file operations, for
\* the first 10 entries of its batch in insertion order; what lies beyond the
\* cap is not requested in that call, and a later call requests the first
\* entries of its own batch only, so nothing is carried over.
C23_AtMostTenPerBatch ==
    MilestoneCommit =>
        /\ Len(last.ops) <= 10
        /\ GetPaths = FirstKeys(FilesToCommit(pre, "todo-app").files, 10)
        /\ \A i \in 1..Len(last.http) :
             \E j \in 1..Len(GetPaths) : last.http[i].path = GetPaths[j]

\* C23 witness: the code milestone and the test milestone both held more
\* than 10 files, and the commit of the tests sent requests for 10
C23_Witness ==
    /\ MilestoneCommit
    /\ last.node = "github_commit_tests"
    /\ Len(Merge(state.code_files, state.unit_tests)) > 10
    /\ Len(state.e2e_tests) > 10
    /\ Len(last.ops) = 10
    /\ Len(GetPaths) = 10

\* C24: with a real repository each commit stage commits the mapping of its own
\* milestone (code_files merged with unit_tests, the unit test winning on a
\* shared path; e2e_tests; README.md) with the message of that milestone, no
\* file of another milestone, all of the mapping when it fits the cap, and
\* nothing when the mapping is empty.
C24_MilestoneCommitsOwnMapping ==
    MilestoneCommit =>
        LET mapping == MilestoneMapping(last.node, pre)
        IN  /\ \A i \in 1..Len(last.http) :
                 /\ last.http[i].path \in DOMAIN mapping
                 /\ last.http[i].m = "PUT" =>
                      /\ last.http[i].content = mapping[last.http[i].path]
                      /\ last.http[i].msg = MilestoneMessage(last.node)
            /\ Cardinality(DOMAIN mapping) <= 10 =>
                 {GetPaths[i] : i \in 1..Len(GetPaths)} = DOMAIN mapping
            /\ DOMAIN mapping = {} => last.ops = <<>> /\ last.http = <<>>

\* C24 witness: the code and the unit tests both hold the path f1, and the
\* code commit put the unit test there
C24_Witness ==
    /\ MilestoneCommit
    /\ last.node = "github_commit_code"
    /\ FilePath(1) \in Keys(pre.code_files)
    /\ Get(pre.code_files, FilePath(1)) = <<"code">>
    /\ \E i \in 1..Len(last.http) :
         /\ last.http[i].m = "PUT"
         /\ last.http[i].path = FilePath(1)
         /\ last.http[i].content = <<"test">>

C17_RunsAreIndependent ==
    /\ \A r, q \in RunIds :
         (r # q /\ runs[r].started /\ runs[q].started) =>
             runs[r].thread_id # runs[q].thread_id
    /\ \A r \in RunIds :
         (runs[r].started /\ runs[r].pc = "returned") =>
             runs[r].result[1].values = Some(runs[r].state)

====
